---- MODULE Spec2Model ----
\* Verification model of the resilience layer of stock-quote-cli:
\*   - the pure circuit-breaker state machine (src/circuit-breaker-state.ts),
\*   - the Effect shell around it, makeCircuitBreaker.execute
\*     (src/circuit-breaker.ts),
\*   - the fallback loop tryProviders and its error classification
\*     isTrippable (src/stock-api-fallback.ts).
\*
\* Three specifications share the module:
\*   Spec         one breaker, driven by concurrent execute calls and a clock;
\*   SpecFallback tryProviders over an arbitrary list of named providers;
\*   SpecPure     the pure functions isTrippable, gate and onTrippableFailure
\*                applied to every input within the bounds.
\* Each specification leaves the variables of the other two parked at their
\* initial values.
EXTENDS Integers, Sequences, FiniteSets, TLC

\* ---------------------------------------------------------------------------
\* Bounds and program constants
\* ---------------------------------------------------------------------------

\* Configuration of the breakers built by FallbackStockApiLive.
maxFailures == 3
resetMs == 30000

\* The clock advances in steps of TickMs milliseconds, up to MaxTicks steps.
TickMs == 10000
MaxTicks == 3

\* Longest provider list handed to tryProviders.
MaxProviders == 3

\* The service clock advances in steps of SvTickMs milliseconds, up to
\* MaxSvTicks steps.
SvTickMs == 4000
MaxSvTicks == 8

\* While a getQuote attempt of the CLI runs, time advances in steps of
\* CliTickMs milliseconds.
CliTickMs == 5000

\* Range of HTTP status codes carried by HttpError values.
StatusLo == 395
StatusHi == 604

\* Inputs of the pure transition functions: timestamps and reset timeouts
\* 0..MaxTime, failure counts 0..MaxCount, thresholds 1..MaxThreshold.
MaxTime == 4
MaxCount == 4
MaxThreshold == 3

\* The fibers that may run execute on the breaker at the same time, and the
\* tryProviders calls that may be in flight at the same time.
Fibers == {"f1", "f2"}
Calls == {"k1", "k2"}

MaxClock == MaxTicks * TickMs

\* ---------------------------------------------------------------------------
\* Error taxonomy (src/stock-api.ts, src/circuit-breaker.ts)
\* ---------------------------------------------------------------------------

NetworkError(m) == [tag |-> "NetworkError", message |-> m]
HttpError(s) == [tag |-> "HttpError", status |-> s]
ParseError(m) == [tag |-> "ParseError", message |-> m]
SymbolNotFound(sym) == [tag |-> "SymbolNotFound", symbol |-> sym]
ServiceError(m) == [tag |-> "ServiceError", message |-> m]
CircuitOpenError(m) == [tag |-> "CircuitOpenError", message |-> m]

\* StockQuote, reduced to the fields that identify where a quote came from.
StockQuote(sym, p) == [symbol |-> sym, price |-> p]

\* Exit of an effect: a value or a typed failure.
Success(v) == [ok |-> TRUE, value |-> v]
Failure(e) == [ok |-> FALSE, error |-> e]

\* Placeholder for "no exit yet" and "no state observed yet".
Pending == [ok |-> FALSE, error |-> [tag |-> "Pending"]]
NoState == [tag |-> "None"]

\* ---------------------------------------------------------------------------
\* isTrippable (src/stock-api-fallback.ts)
\* ---------------------------------------------------------------------------

isTrippable_allHttpTrippable(e) ==
  CASE e.tag \in {"NetworkError", "ParseError", "ServiceError",
                  "CircuitOpenError"} -> TRUE
    [] e.tag = "HttpError" -> TRUE
    [] e.tag = "SymbolNotFound" -> FALSE

isTrippable_strictHttp(e) ==
  CASE e.tag \in {"NetworkError", "ParseError", "ServiceError",
                  "CircuitOpenError"} -> TRUE
    [] e.tag = "HttpError" -> e.status > 500
    [] e.tag = "SymbolNotFound" -> FALSE

isTrippable_serviceTerminal(e) ==
  CASE e.tag \in {"NetworkError", "ParseError", "CircuitOpenError"} -> TRUE
    [] e.tag = "ServiceError" -> FALSE
    [] e.tag = "HttpError" -> e.status >= 500
    [] e.tag = "SymbolNotFound" -> FALSE

isTrippable(e) ==
  CASE e.tag \in {"NetworkError", "ParseError", "ServiceError",
                  "CircuitOpenError"} -> TRUE
    [] e.tag = "HttpError" -> e.status >= 500
    [] e.tag = "SymbolNotFound" -> FALSE

\* ---------------------------------------------------------------------------
\* Circuit breaker: pure state machine (src/circuit-breaker-state.ts)
\* ---------------------------------------------------------------------------

Closed(failures) == [tag |-> "Closed", failures |-> failures]
Open(openedAt) == [tag |-> "Open", openedAt |-> openedAt]
HalfOpen == [tag |-> "HalfOpen"]

initialState_open == Open(0)

initialState == Closed(0)

gate_strictTimeout(state, t, reset) ==
  CASE state.tag \in {"Closed", "HalfOpen"} -> <<"allow", state>>
    [] state.tag = "Open" ->
         IF t - state.openedAt > reset
           THEN <<"allow", HalfOpen>>
           ELSE <<"reject", state>>

gate_singleProbe(state, t, reset) ==
  CASE state.tag = "Closed" -> <<"allow", state>>
    [] state.tag = "HalfOpen" -> <<"reject", state>>
    [] state.tag = "Open" ->
         IF t - state.openedAt >= reset
           THEN <<"allow", HalfOpen>>
           ELSE <<"reject", state>>

gate_allowStaysOpen(state, t, reset) ==
  CASE state.tag \in {"Closed", "HalfOpen"} -> <<"allow", state>>
    [] state.tag = "Open" ->
         IF t - state.openedAt >= reset
           THEN <<"allow", state>>
           ELSE <<"reject", state>>

gate_invertedTimeout(state, t, reset) ==
  CASE state.tag \in {"Closed", "HalfOpen"} -> <<"allow", state>>
    [] state.tag = "Open" ->
         IF t - state.openedAt <= reset
           THEN <<"allow", HalfOpen>>
           ELSE <<"reject", state>>

gate_rejectRefreshes(state, t, reset) ==
  CASE state.tag \in {"Closed", "HalfOpen"} -> <<"allow", state>>
    [] state.tag = "Open" ->
         IF t - state.openedAt >= reset
           THEN <<"allow", HalfOpen>>
           ELSE <<"reject", Open(t)>>

gate(state, t, reset) ==
  CASE state.tag \in {"Closed", "HalfOpen"} -> <<"allow", state>>
    [] state.tag = "Open" ->
         IF t - state.openedAt >= reset
           THEN <<"allow", HalfOpen>>
           ELSE <<"reject", state>>

onSuccess == Closed(0)

onTrippableFailure_lateOpen(state, t, maxF) ==
  CASE state.tag = "HalfOpen" -> Open(t)
    [] state.tag = "Closed" ->
         LET next == state.failures + 1
         IN  IF next > maxF THEN Open(t) ELSE Closed(next)
    [] state.tag = "Open" -> state

onTrippableFailure_keepsCount(state, t, maxF) ==
  CASE state.tag = "HalfOpen" -> Open(t)
    [] state.tag = "Closed" ->
         LET next == state.failures + 1
         IN  IF next >= maxF THEN Open(t) ELSE Closed(state.failures)
    [] state.tag = "Open" -> state

onTrippableFailure_probeCounts(state, t, maxF) ==
  CASE state.tag = "HalfOpen" -> IF 1 >= maxF THEN Open(t) ELSE Closed(1)
    [] state.tag = "Closed" ->
         LET next == state.failures + 1
         IN  IF next >= maxF THEN Open(t) ELSE Closed(next)
    [] state.tag = "Open" -> state

onTrippableFailure_reopens(state, t, maxF) ==
  CASE state.tag = "HalfOpen" -> Open(t)
    [] state.tag = "Closed" ->
         LET next == state.failures + 1
         IN  IF next >= maxF THEN Open(t) ELSE Closed(next)
    [] state.tag = "Open" -> Open(t)

onTrippableFailure_halfOpens(state, t, maxF) ==
  CASE state.tag = "HalfOpen" -> Open(t)
    [] state.tag = "Closed" ->
         LET next == state.failures + 1
         IN  IF next >= maxF THEN HalfOpen ELSE Closed(next)
    [] state.tag = "Open" -> state

onTrippableFailure(state, t, maxF) ==
  CASE state.tag = "HalfOpen" -> Open(t)
    [] state.tag = "Closed" ->
         LET next == state.failures + 1
         IN  IF next >= maxF THEN Open(t) ELSE Closed(next)
    [] state.tag = "Open" -> state

\* ---------------------------------------------------------------------------
\* State
\* ---------------------------------------------------------------------------

VARIABLES
  \* -- one breaker (makeCircuitBreaker) and the fibers running execute --
  ref,        \* the Ref<CircuitState> owned by the breaker
  clock,      \* Clock.currentTimeMillis
  pc,         \* per fiber: "idle", "gate", "running", "done"
  now,        \* per fiber: the clock reading taken at the start of execute
  decision,   \* per fiber: the gate's decision for this call
  prev,       \* per fiber: the state the cell held just before the gate
  gated,      \* per fiber: the state the gate left in the cell
  invoked,    \* per fiber: the wrapped operation has been started
  opExit,     \* per fiber: the exit of the wrapped operation
  result,     \* per fiber: the exit of execute
  overlap,    \* history: two calls have been in flight at the same time
  before,     \* per fiber: the state the cell held when the operation ended
  streak,     \* history: length of the current run of trippable failures
  opened,     \* history: openedAt of the latest transition into Open, or -1
  fresh,      \* history: no execute call has passed the gate yet
  counted,    \* history: trippable failures recorded while Closed since the
              \* cell was last set to Closed(0)
  \* -- tryProviders calls --
  providers,  \* the ordered list of provider names
  tpPc,       \* per call: "idle", "loop", "calling", "done"
  symbol,     \* per call: the requested symbol
  index,      \* per call: loop index
  lastError,  \* per call: loop lastError
  trace,      \* per call: the provider invocations made, <<index, exit>>
  tpResult,   \* per call: the exit of tryProviders
  \* -- pure functions --
  fnPc,       \* "ready" or the name of the function applied
  fnArgs,     \* the arguments drawn by Init
  fnRet,      \* the value returned
  \* -- the fallback service (FallbackStockApiLive) --
  svRef,      \* per provider: the cell of its circuit breaker
  svClock,    \* Clock.currentTimeMillis
  svPhase,    \* per call: "none", "gate", "running" inside withBreaker
  svNow,      \* per call: the clock reading taken by execute
  svStart,    \* per call: the clock time the provider operation started
  svMade,     \* history, per call: the clock time getQuote was called
  svInvoked,  \* history, per call: providers whose operation was started
  svRaw,      \* history, per call: the exits of breaker.execute
  svStreak,   \* history, per provider: trippable failures in a row
  svOpening,  \* history, per provider: clock time of the latest opening
  \* -- the CLI command handler (main.ts) --
  cliPc,      \* "idle", "attempt", "backoff", "done"
  cliSymbol,  \* the --symbol option
  cliElapsed, \* milliseconds the current getQuote attempt has been running
  cliRetries, \* retries the schedule has granted so far
  cliDelay,   \* the backoff delay of the latest retry
  cliExits,   \* history: the exit of every attempt made
  cliResult,  \* the exit of the retried effect
  \* -- a reader of the breaker's state accessor --
  snapshot    \* the value last returned by breaker.state

cbVars == <<ref, clock, pc, now, decision, prev, gated, invoked, opExit,
            result, before, overlap, streak, opened, fresh, counted>>
tpVars == <<providers, tpPc, symbol, index, lastError, trace, tpResult>>
fnVars == <<fnPc, fnArgs, fnRet>>
svVars == <<svRef, svClock, svPhase, svNow, svStart, svMade, svInvoked, svRaw,
            svStreak, svOpening>>
cliVars == <<cliPc, cliSymbol, cliElapsed, cliRetries, cliDelay, cliExits,
             cliResult>>
obVars == <<snapshot>>
vars == <<cbVars, tpVars, fnVars, svVars, cliVars, obVars>>

\* ---------------------------------------------------------------------------
\* Pure functions applied to drawn inputs
\* ---------------------------------------------------------------------------

Messages == {"down", "Circuit is open"}
Symbols == {"AAPL", "XYZ"}

\* Every value of StockApiError | CircuitOpenError within the bounds.
AllErrors ==
  {NetworkError(m) : m \in Messages} \cup
  {ParseError(m) : m \in Messages} \cup
  {ServiceError(m) : m \in Messages} \cup
  {CircuitOpenError(m) : m \in Messages} \cup
  {HttpError(s) : s \in StatusLo..StatusHi} \cup
  {SymbolNotFound(sym) : sym \in Symbols}

\* Every CircuitState within the bounds.
CircuitStates ==
  {Closed(f) : f \in 0..MaxCount} \cup {Open(t) : t \in 0..MaxTime}
    \cup {HalfOpen}

\* The argument lists of isTrippable, gate and onTrippableFailure.
IsTrippableArgs == [e : AllErrors]
GateArgs == [state : CircuitStates, now : 0..MaxTime, resetMs : 0..MaxTime]
OnTrippableFailureArgs ==
  [state : CircuitStates, now : 0..MaxTime, maxFailures : 1..MaxThreshold]

InitPure ==
  /\ fnPc = "ready"
  /\ fnArgs \in IsTrippableArgs \cup GateArgs \cup OnTrippableFailureArgs
  /\ fnRet = FALSE

ParkedPure ==
  /\ fnPc = "ready"
  /\ fnArgs = [e |-> NetworkError("down")]
  /\ fnRet = FALSE

ApplyIsTrippable ==
  /\ fnPc = "ready"
  /\ DOMAIN fnArgs = {"e"}
  /\ fnPc' = "isTrippable"
  /\ fnRet' = isTrippable(fnArgs.e)
  /\ UNCHANGED <<fnArgs, cbVars, tpVars, svVars, cliVars, obVars>>

ApplyGate ==
  /\ fnPc = "ready"
  /\ "resetMs" \in DOMAIN fnArgs
  /\ fnPc' = "gate"
  /\ fnRet' = gate(fnArgs.state, fnArgs.now, fnArgs.resetMs)
  /\ UNCHANGED <<fnArgs, cbVars, tpVars, svVars, cliVars, obVars>>

ApplyOnTrippableFailure ==
  /\ fnPc = "ready"
  /\ "maxFailures" \in DOMAIN fnArgs
  /\ fnPc' = "onTrippableFailure"
  /\ fnRet' = onTrippableFailure(fnArgs.state, fnArgs.now, fnArgs.maxFailures)
  /\ UNCHANGED <<fnArgs, cbVars, tpVars, svVars, cliVars, obVars>>

\* ---------------------------------------------------------------------------
\* The breaker: makeCircuitBreaker and execute (src/circuit-breaker.ts)
\* ---------------------------------------------------------------------------

\* Exits of the operation wrapped by execute: a quote or a StockApiError.
OpErrors ==
  {NetworkError("down"), ServiceError("down"), HttpError(500),
   HttpError(404), SymbolNotFound("XYZ")}
OpExits == {Success(StockQuote("AAPL", 150))} \cup {Failure(e) : e \in OpErrors}

\* The tag the cell held before the gate, as execute binds it.
prevTag(c) == prev[c].tag

InFlight(c) == pc[c] \in {"gate", "running"}

Min(a, b) == IF a < b THEN a ELSE b

\* makeCircuitBreaker: the cell starts at initialState; no call has begun.
InitBreaker ==
  /\ ref = initialState
  /\ clock = 0
  /\ pc = [c \in Fibers |-> "idle"]
  /\ now = [c \in Fibers |-> 0]
  /\ decision = [c \in Fibers |-> "none"]
  /\ prev = [c \in Fibers |-> NoState]
  /\ gated = [c \in Fibers |-> NoState]
  /\ invoked = [c \in Fibers |-> FALSE]
  /\ opExit = [c \in Fibers |-> Pending]
  /\ result = [c \in Fibers |-> Pending]
  /\ before = [c \in Fibers |-> NoState]
  /\ overlap = FALSE
  /\ streak = 0
  /\ opened = -1
  /\ fresh = TRUE
  /\ counted = 0

\* execute, first step: read the clock.
Begin(c) ==
  /\ pc[c] = "idle"
  /\ pc' = [pc EXCEPT ![c] = "gate"]
  /\ now' = [now EXCEPT ![c] = clock]
  /\ overlap' = (overlap \/ \E d \in Fibers \ {c} : InFlight(d))
  /\ UNCHANGED <<ref, clock, decision, prev, gated, invoked, opExit, result,
                 before, streak, opened, fresh, counted>>
  /\ UNCHANGED <<tpVars, fnVars, svVars, cliVars, obVars>>

\* execute, second step: Ref.modify with gate; a rejected call fails with
\* CircuitOpenError, an admitted call starts the wrapped operation.
Gate(c) ==
  /\ pc[c] = "gate"
  /\ LET g == gate(ref, now[c], resetMs)
     IN  /\ ref' = g[2]
         /\ decision' = [decision EXCEPT ![c] = g[1]]
         /\ prev' = [prev EXCEPT ![c] = ref]
         /\ gated' = [gated EXCEPT ![c] = g[2]]
         /\ IF g[1] = "reject"
              THEN /\ pc' = [pc EXCEPT ![c] = "done"]
                   /\ result' = [result EXCEPT
                        ![c] = Failure(CircuitOpenError("Circuit is open"))]
                   /\ UNCHANGED invoked
              ELSE /\ pc' = [pc EXCEPT ![c] = "running"]
                   /\ invoked' = [invoked EXCEPT ![c] = TRUE]
                   /\ UNCHANGED result
  /\ fresh' = FALSE
  /\ UNCHANGED counted
  /\ UNCHANGED <<clock, now, opExit, before, overlap, streak, opened>>
  /\ UNCHANGED <<tpVars, fnVars, svVars, cliVars, obVars>>

\* The state left by the tap / tapError handlers for an operation exit.
Recorded_countAll(state, exit, t) ==
  IF exit.ok THEN onSuccess
  ELSE onTrippableFailure(state, t, maxFailures)

Recorded_successKeeps(state, exit, t) ==
  IF exit.ok THEN (IF state.tag = "Open" THEN state ELSE onSuccess)
  ELSE IF isTrippable(exit.error)
    THEN onTrippableFailure(state, t, maxFailures)
    ELSE state

Recorded(state, exit, t) ==
  IF exit.ok THEN onSuccess
  ELSE IF isTrippable(exit.error)
    THEN onTrippableFailure(state, t, maxFailures)
    ELSE state

\* The exit of execute for an operation exit: tap and tapError keep it.
Propagated_maskOnOpen(state, exit) ==
  IF ~exit.ok /\ state.tag = "Open"
    THEN Failure(CircuitOpenError("Circuit is open"))
    ELSE exit

Propagated(state, exit) == exit

\* History of the operation exits recorded so far: the number of trippable
\* failures in a row that started from Closed(0) (capped at maxFailures),
\* 0 again after a success, and -1 once a non-trippable failure has
\* interrupted a run that had begun.
NextStreak(n, exit) ==
  IF exit.ok THEN 0
  ELSE IF exit.error.tag \in {"NetworkError", "ParseError", "ServiceError"}
          \/ (exit.error.tag = "HttpError" /\ exit.error.status >= 500)
    THEN (IF n < 0 THEN n ELSE Min(n + 1, maxFailures))
    ELSE (IF n = 0 THEN 0 ELSE -1)

\* History: the openedAt stored by a step that moves the cell into Open.
NextOpened(o, state, next) ==
  IF next.tag = "Open" /\ state.tag # "Open" THEN next.openedAt ELSE o

\* History: a success sets the cell to Closed(0) and restarts the count; a
\* trippable failure recorded while the cell is Closed adds one.
NextCounted(n, state, exit) ==
  IF exit.ok THEN 0
  ELSE IF /\ state.tag = "Closed"
          /\ \/ exit.error.tag \in {"NetworkError", "ParseError", "ServiceError"}
             \/ (exit.error.tag = "HttpError" /\ exit.error.status >= 500)
    THEN n + 1
    ELSE n

Complete_staleRead(c, exit) ==
  /\ pc[c] = "running"
  /\ ref' = Recorded(gated[c], exit, now[c])
  /\ opExit' = [opExit EXCEPT ![c] = exit]
  /\ result' = [result EXCEPT ![c] = Propagated(ref', exit)]
  /\ pc' = [pc EXCEPT ![c] = "done"]
  /\ before' = [before EXCEPT ![c] = ref]
  /\ streak' = NextStreak(streak, exit)
  /\ opened' = NextOpened(opened, ref, ref')
  /\ counted' = NextCounted(counted, ref, exit)
  /\ UNCHANGED <<clock, now, decision, prev, gated, invoked, overlap, fresh>>
  /\ UNCHANGED <<tpVars, fnVars, svVars, cliVars, obVars>>

\* execute, third step: the wrapped operation completes with some exit and
\* the tap / tapError handler records it in the cell.
Complete(c, exit) ==
  /\ pc[c] = "running"
  /\ ref' = Recorded(ref, exit, now[c])
  /\ opExit' = [opExit EXCEPT ![c] = exit]
  /\ result' = [result EXCEPT ![c] = Propagated(ref', exit)]
  /\ pc' = [pc EXCEPT ![c] = "done"]
  /\ before' = [before EXCEPT ![c] = ref]
  /\ streak' = NextStreak(streak, exit)
  /\ opened' = NextOpened(opened, ref, ref')
  /\ counted' = NextCounted(counted, ref, exit)
  /\ UNCHANGED <<clock, now, decision, prev, gated, invoked, overlap, fresh>>
  /\ UNCHANGED <<tpVars, fnVars, svVars, cliVars, obVars>>

\* The caller takes the exit; the fiber is free for the next call.
Return(c) ==
  /\ pc[c] = "done"
  /\ pc' = [pc EXCEPT ![c] = "idle"]
  /\ now' = [now EXCEPT ![c] = 0]
  /\ decision' = [decision EXCEPT ![c] = "none"]
  /\ prev' = [prev EXCEPT ![c] = NoState]
  /\ gated' = [gated EXCEPT ![c] = NoState]
  /\ invoked' = [invoked EXCEPT ![c] = FALSE]
  /\ opExit' = [opExit EXCEPT ![c] = Pending]
  /\ result' = [result EXCEPT ![c] = Pending]
  /\ before' = [before EXCEPT ![c] = NoState]
  /\ UNCHANGED <<ref, clock, overlap, streak, opened, fresh, counted>>
  /\ UNCHANGED <<tpVars, fnVars, svVars, cliVars, obVars>>

\* Time passes.
Tick ==
  /\ clock + TickMs <= MaxClock
  /\ clock' = clock + TickMs
  /\ UNCHANGED <<ref, pc, now, decision, prev, gated, invoked, opExit, result,
                 before, overlap, streak, opened, fresh, counted>>
  /\ UNCHANGED <<tpVars, fnVars, svVars, cliVars, obVars>>

\* ---------------------------------------------------------------------------
\* The fallback loop: tryProviders (src/stock-api-fallback.ts)
\* ---------------------------------------------------------------------------

\* Names for the providers of a list, by position.
ProviderNames == <<"yahoo", "alphavantage", "third", "fourth", "fifth">>

\* The provider lists tryProviders is called with: every length up to
\* MaxProviders, the empty list included.
ProviderLists ==
  {SubSeq(ProviderNames, 1, n) : n \in 0..MaxProviders}

\* What providers[i].getQuote(sym) may produce. Quotes and messages carry the
\* provider's position or name, so that the exits of two providers differ.
ProviderExits(i, sym) ==
  {Success(StockQuote(sym, 100 + i)),
   Failure(NetworkError(ProviderNames[i + 1])),
   Failure(ServiceError(ProviderNames[i + 1])),
   Failure(HttpError(500 + i)),
   Failure(HttpError(400 + i)),
   Failure(SymbolNotFound(sym))}

InitLoop ==
  /\ providers \in ProviderLists
  /\ tpPc = [k \in Calls |-> "idle"]
  /\ symbol = [k \in Calls |-> ""]
  /\ index = [k \in Calls |-> 0]
  /\ lastError = [k \in Calls |-> ServiceError("")]
  /\ trace = [k \in Calls |-> <<>>]
  /\ tpResult = [k \in Calls |-> Pending]

ParkedLoop ==
  /\ providers = <<>>
  /\ tpPc = [k \in Calls |-> "idle"]
  /\ symbol = [k \in Calls |-> ""]
  /\ index = [k \in Calls |-> 0]
  /\ lastError = [k \in Calls |-> ServiceError("")]
  /\ trace = [k \in Calls |-> <<>>]
  /\ tpResult = [k \in Calls |-> Pending]

tryProviders_startsAtOne(k, sym) ==
  /\ tpPc[k] = "idle"
  /\ tpPc' = [tpPc EXCEPT ![k] = "loop"]
  /\ symbol' = [symbol EXCEPT ![k] = sym]
  /\ index' = [index EXCEPT ![k] = 1]
  /\ lastError' = [lastError EXCEPT
       ![k] = ServiceError("No providers configured")]
  /\ trace' = [trace EXCEPT ![k] = <<>>]
  /\ tpResult' = [tpResult EXCEPT ![k] = Pending]
  /\ UNCHANGED providers
  /\ UNCHANGED <<cbVars, fnVars, cliVars, obVars>>

\* tryProviders(providers, sym): loop(0, ServiceError("No providers configured")).
tryProviders(k, sym) ==
  /\ tpPc[k] = "idle"
  /\ tpPc' = [tpPc EXCEPT ![k] = "loop"]
  /\ symbol' = [symbol EXCEPT ![k] = sym]
  /\ index' = [index EXCEPT ![k] = 0]
  /\ lastError' = [lastError EXCEPT
       ![k] = ServiceError("No providers configured")]
  /\ trace' = [trace EXCEPT ![k] = <<>>]
  /\ tpResult' = [tpResult EXCEPT ![k] = Pending]
  /\ UNCHANGED providers
  /\ UNCHANGED <<cbVars, fnVars, cliVars, obVars>>

loop_offByOne(k) ==
  /\ tpPc[k] = "loop"
  /\ IF index[k] > Len(providers)
       THEN /\ tpPc' = [tpPc EXCEPT ![k] = "done"]
            /\ tpResult' = [tpResult EXCEPT ![k] = Failure(lastError[k])]
            /\ UNCHANGED trace
       ELSE /\ tpPc' = [tpPc EXCEPT ![k] = "calling"]
            /\ trace' = [trace EXCEPT
                 ![k] = Append(@, [index |-> index[k], exit |-> Pending])]
            /\ UNCHANGED tpResult
  /\ UNCHANGED <<providers, symbol, index, lastError>>
  /\ UNCHANGED <<cbVars, fnVars, cliVars, obVars>>

\* loop(index, lastError): past the end of the list, fail with lastError;
\* otherwise call providers[index].getQuote(symbol).
loop(k) ==
  /\ tpPc[k] = "loop"
  /\ IF index[k] >= Len(providers)
       THEN /\ tpPc' = [tpPc EXCEPT ![k] = "done"]
            /\ tpResult' = [tpResult EXCEPT ![k] = Failure(lastError[k])]
            /\ UNCHANGED trace
       ELSE /\ tpPc' = [tpPc EXCEPT ![k] = "calling"]
            /\ trace' = [trace EXCEPT
                 ![k] = Append(@, [index |-> index[k], exit |-> Pending])]
            /\ UNCHANGED tpResult
  /\ UNCHANGED <<providers, symbol, index, lastError>>
  /\ UNCHANGED <<cbVars, fnVars, cliVars, obVars>>

settle_retries(k, exit) ==
  /\ tpPc[k] = "calling"
  /\ trace' = [trace EXCEPT ![k][Len(trace[k])].exit = exit]
  /\ IF ~exit.ok /\ isTrippable(exit.error)
       THEN /\ tpPc' = [tpPc EXCEPT ![k] = "loop"]
            /\ lastError' = [lastError EXCEPT ![k] = exit.error]
            /\ UNCHANGED <<index, tpResult>>
       ELSE /\ tpPc' = [tpPc EXCEPT ![k] = "done"]
            /\ tpResult' = [tpResult EXCEPT ![k] = exit]
            /\ UNCHANGED <<index, lastError>>
  /\ UNCHANGED <<providers, symbol>>
  /\ UNCHANGED <<cbVars, fnVars, cliVars, obVars>>

settle_sharedLastError(k, exit) ==
  /\ tpPc[k] = "calling"
  /\ trace' = [trace EXCEPT ![k][Len(trace[k])].exit = exit]
  /\ IF ~exit.ok /\ isTrippable(exit.error)
       THEN /\ tpPc' = [tpPc EXCEPT ![k] = "loop"]
            /\ index' = [index EXCEPT ![k] = @ + 1]
            /\ lastError' = [j \in Calls |-> exit.error]
            /\ UNCHANGED tpResult
       ELSE /\ tpPc' = [tpPc EXCEPT ![k] = "done"]
            /\ tpResult' = [tpResult EXCEPT ![k] = exit]
            /\ UNCHANGED <<index, lastError>>
  /\ UNCHANGED <<providers, symbol>>
  /\ UNCHANGED <<cbVars, fnVars, cliVars, obVars>>

settle_dropsError(k, exit) ==
  /\ tpPc[k] = "calling"
  /\ trace' = [trace EXCEPT ![k][Len(trace[k])].exit = exit]
  /\ IF ~exit.ok /\ isTrippable(exit.error)
       THEN /\ tpPc' = [tpPc EXCEPT ![k] = "loop"]
            /\ index' = [index EXCEPT ![k] = @ + 1]
            /\ UNCHANGED <<lastError, tpResult>>
       ELSE /\ tpPc' = [tpPc EXCEPT ![k] = "done"]
            /\ tpResult' = [tpResult EXCEPT ![k] = exit]
            /\ UNCHANGED <<index, lastError>>
  /\ UNCHANGED <<providers, symbol>>
  /\ UNCHANGED <<cbVars, fnVars, cliVars, obVars>>

\* The provider's effect completes; catchIf(isTrippable, ...) recurses into
\* loop(index + 1, e) on a trippable failure and lets any other exit through.
settle(k, exit) ==
  /\ tpPc[k] = "calling"
  /\ trace' = [trace EXCEPT ![k][Len(trace[k])].exit = exit]
  /\ IF ~exit.ok /\ isTrippable(exit.error)
       THEN /\ tpPc' = [tpPc EXCEPT ![k] = "loop"]
            /\ index' = [index EXCEPT ![k] = @ + 1]
            /\ lastError' = [lastError EXCEPT ![k] = exit.error]
            /\ UNCHANGED tpResult
       ELSE /\ tpPc' = [tpPc EXCEPT ![k] = "done"]
            /\ tpResult' = [tpResult EXCEPT ![k] = exit]
            /\ UNCHANGED <<index, lastError>>
  /\ UNCHANGED <<providers, symbol>>
  /\ UNCHANGED <<cbVars, fnVars, cliVars, obVars>>

\* The caller takes the exit of tryProviders.
finish(k) ==
  /\ tpPc[k] = "done"
  /\ tpPc' = [tpPc EXCEPT ![k] = "idle"]
  /\ symbol' = [symbol EXCEPT ![k] = ""]
  /\ index' = [index EXCEPT ![k] = 0]
  /\ lastError' = [lastError EXCEPT ![k] = ServiceError("")]
  /\ trace' = [trace EXCEPT ![k] = <<>>]
  /\ tpResult' = [tpResult EXCEPT ![k] = Pending]
  /\ UNCHANGED providers
  /\ UNCHANGED <<cbVars, fnVars, cliVars, obVars>>

\* ---------------------------------------------------------------------------
\* The fallback service: withBreaker and FallbackStockApiLive
\* (src/stock-api-fallback.ts)
\* ---------------------------------------------------------------------------

\* PROVIDER_TIMEOUT = "5 seconds", in milliseconds.
PROVIDER_TIMEOUT == 5000

MaxSvClock == MaxSvTicks * SvTickMs

\* The provider lists the layer builds: yahoo, and alphavantage when its API
\* key is configured.
ServiceProviderLists == {SubSeq(ProviderNames, 1, n) : n \in {1, 2}}
ServiceNames == {"yahoo", "alphavantage"}

\* The CLI makes one getQuote call at a time.
ServiceCalls == {"k1"}

\* timeoutFail's onTimeout.
onTimeout(name) == NetworkError(name \o ": request timed out")

mapError_identity(name, exit) == exit

\* withBreaker's mapError: CircuitOpenError becomes ServiceError.
mapError(name, exit) ==
  IF ~exit.ok /\ exit.error.tag = "CircuitOpenError"
    THEN Failure(ServiceError(name \o ": circuit open"))
    ELSE exit

\* The layer at startup: one breaker per provider, each at initialState.
ParkedService ==
  /\ svRef = [n \in ServiceNames |-> initialState]
  /\ svClock = 0
  /\ svPhase = [k \in Calls |-> "none"]
  /\ svNow = [k \in Calls |-> 0]
  /\ svStart = [k \in Calls |-> 0]
  /\ svMade = [k \in Calls |-> 0]
  /\ svInvoked = [k \in Calls |-> {}]
  /\ svRaw = [k \in Calls |-> <<>>]
  /\ svStreak = [n \in ServiceNames |-> 0]
  /\ svOpening = [n \in ServiceNames |-> -1]

InitService ==
  /\ providers \in ServiceProviderLists
  /\ tpPc = [k \in Calls |-> "idle"]
  /\ symbol = [k \in Calls |-> ""]
  /\ index = [k \in Calls |-> 0]
  /\ lastError = [k \in Calls |-> ServiceError("")]
  /\ trace = [k \in Calls |-> <<>>]
  /\ tpResult = [k \in Calls |-> Pending]
  /\ ParkedService

\* The provider the loop is calling: providers[index].
current(k) == providers[index[k] + 1]

\* StockApi.getQuote of the layer: tryProviders(providers, symbol).
getQuote(k, sym) ==
  /\ tryProviders(k, sym)
  /\ svMade' = [svMade EXCEPT ![k] = svClock]
  /\ svInvoked' = [svInvoked EXCEPT ![k] = {}]
  /\ svRaw' = [svRaw EXCEPT ![k] = <<>>]
  /\ UNCHANGED <<svRef, svClock, svPhase, svNow, svStart, svStreak, svOpening>>

\* loop over the wrapped providers: calling providers[index].getQuote enters
\* withBreaker.
serviceLoop(k) ==
  /\ loop(k)
  /\ svPhase' = [svPhase EXCEPT
       ![k] = IF tpPc'[k] = "calling" THEN "gate" ELSE "none"]
  /\ UNCHANGED <<svRef, svClock, svNow, svStart, svMade, svInvoked, svRaw,
                 svStreak, svOpening>>

\* breaker.execute inside withBreaker: read the clock and gate. A rejection
\* fails with CircuitOpenError, which mapError turns into ServiceError before
\* the loop's catchIf sees it; otherwise the provider operation starts under
\* its timeout.
execute(k) ==
  /\ tpPc[k] = "calling"
  /\ svPhase[k] = "gate"
  /\ LET name == current(k)
         g == gate(svRef[name], svClock, resetMs)
     IN  /\ svRef' = [svRef EXCEPT ![name] = g[2]]
         /\ IF g[1] = "reject"
              THEN LET raw == Failure(CircuitOpenError("Circuit is open"))
                   IN  /\ settle(k, mapError(name, raw))
                       /\ svRaw' = [svRaw EXCEPT ![k] = Append(@, raw)]
                       /\ svPhase' = [svPhase EXCEPT ![k] = "none"]
                       /\ UNCHANGED <<svNow, svStart, svInvoked>>
              ELSE /\ svPhase' = [svPhase EXCEPT ![k] = "running"]
                   /\ svNow' = [svNow EXCEPT ![k] = svClock]
                   /\ svStart' = [svStart EXCEPT ![k] = svClock]
                   /\ svInvoked' = [svInvoked EXCEPT ![k] = @ \cup {name}]
                   /\ UNCHANGED svRaw
                   /\ UNCHANGED <<tpVars, cbVars, fnVars, cliVars, obVars>>
  /\ UNCHANGED <<svClock, svMade, svStreak, svOpening>>

\* History: the trippable failures a provider's wrapped operation has produced
\* in a row, capped at maxFailures.
NextRun(n, exit) ==
  IF exit.ok THEN 0
  ELSE IF exit.error.tag \in {"NetworkError", "ParseError", "ServiceError"}
          \/ (exit.error.tag = "HttpError" /\ exit.error.status >= 500)
    THEN Min(n + 1, maxFailures)
    ELSE 0

record_sharedCell(k, exit, state) ==
  LET name == current(k)
      raw == Propagated(state, exit)
  IN  /\ svRef' = [n \in ServiceNames |-> state]
      /\ svRaw' = [svRaw EXCEPT ![k] = Append(@, raw)]
      /\ settle(k, mapError(name, raw))
      /\ svPhase' = [svPhase EXCEPT ![k] = "none"]
      /\ svNow' = [svNow EXCEPT ![k] = 0]
      /\ svStart' = [svStart EXCEPT ![k] = 0]
      /\ svStreak' = [svStreak EXCEPT ![name] = NextRun(@, exit)]
      /\ svOpening' = [svOpening EXCEPT
           ![name] = IF /\ state.tag = "Open"
                        /\ svRef[name].tag # "Open"
                        /\ svStreak'[name] = maxFailures
                       THEN svClock ELSE @]
      /\ UNCHANGED <<svClock, svMade, svInvoked>>

\* The wrapped operation ends with exit: the breaker's cell becomes state,
\* execute propagates the exit, mapError maps it and the loop's catchIf
\* takes it.
record(k, exit, state) ==
  LET name == current(k)
      raw == Propagated(state, exit)
  IN  /\ svRef' = [svRef EXCEPT ![name] = state]
      /\ svRaw' = [svRaw EXCEPT ![k] = Append(@, raw)]
      /\ settle(k, mapError(name, raw))
      /\ svPhase' = [svPhase EXCEPT ![k] = "none"]
      /\ svNow' = [svNow EXCEPT ![k] = 0]
      /\ svStart' = [svStart EXCEPT ![k] = 0]
      /\ svStreak' = [svStreak EXCEPT ![name] = NextRun(@, exit)]
      /\ svOpening' = [svOpening EXCEPT
           ![name] = IF /\ state.tag = "Open"
                        /\ svRef[name].tag # "Open"
                        /\ svStreak'[name] = maxFailures
                       THEN svClock ELSE @]
      /\ UNCHANGED <<svClock, svMade, svInvoked>>

\* The provider operation completes before its timeout.
providerCompletes(k, exit) ==
  /\ tpPc[k] = "calling"
  /\ svPhase[k] = "running"
  /\ svClock - svStart[k] < PROVIDER_TIMEOUT
  /\ record(k, exit, Recorded(svRef[current(k)], exit, svNow[k]))

timeoutFail_outsideBreaker(k) ==
  /\ tpPc[k] = "calling"
  /\ svPhase[k] = "running"
  /\ svClock - svStart[k] >= PROVIDER_TIMEOUT
  /\ record(k, Failure(onTimeout(current(k))), svRef[current(k)])

\* timeoutFail: the operation has run for PROVIDER_TIMEOUT; it is interrupted
\* and fails with onTimeout's error inside breaker.execute.
timeoutFail(k) ==
  /\ tpPc[k] = "calling"
  /\ svPhase[k] = "running"
  /\ svClock - svStart[k] >= PROVIDER_TIMEOUT
  /\ LET exit == Failure(onTimeout(current(k)))
     IN  record(k, exit, Recorded(svRef[current(k)], exit, svNow[k]))

\* The caller takes the exit of getQuote.
serviceFinish(k) ==
  /\ finish(k)
  /\ svMade' = [svMade EXCEPT ![k] = 0]
  /\ svInvoked' = [svInvoked EXCEPT ![k] = {}]
  /\ svRaw' = [svRaw EXCEPT ![k] = <<>>]
  /\ UNCHANGED <<svRef, svClock, svPhase, svNow, svStart, svStreak, svOpening>>

\* Time passes between getQuote calls and while a provider operation runs
\* (the network call is the only point where a call suspends); the timer of
\* timeoutFail cuts a running operation off once PROVIDER_TIMEOUT has passed.
advance ==
  /\ svClock < MaxSvClock
  /\ \A k \in Calls :
       \/ tpPc[k] = "idle"
       \/ svPhase[k] = "running" /\ svClock - svStart[k] < PROVIDER_TIMEOUT
  /\ svClock' = svClock + SvTickMs
  /\ UNCHANGED <<svRef, svPhase, svNow, svStart, svMade, svInvoked, svRaw,
                 svStreak, svOpening>>
  /\ UNCHANGED <<cbVars, tpVars, fnVars, cliVars, obVars>>

\* ---------------------------------------------------------------------------
\* The CLI command handler: timeoutFail and retry around getQuote (main.ts)
\* ---------------------------------------------------------------------------

\* Effect.timeoutFail duration "10 seconds", in milliseconds.
CLI_TIMEOUT == 10000

\* Schedule.recurs(2).
recurs == 2

\* Schedule.exponential("1 second"): base delay in milliseconds.
exponentialBase == 1000

\* What api.getQuote(symbol) may produce before the timeout.
GetQuoteExits(sym) ==
  {Success(StockQuote(sym, 150)),
   Failure(NetworkError("down")),
   Failure(ServiceError("down")),
   Failure(ParseError("down")),
   Failure(HttpError(500)),
   Failure(HttpError(404)),
   Failure(SymbolNotFound(sym))}

\* timeoutFail's onTimeout of the handler.
onCliTimeout == NetworkError("Request timed out")

retryWhile_trippable(e) == isTrippable(e)

\* retry's while predicate.
retryWhile(e) == e.tag = "NetworkError"

\* The delay Schedule.exponential gives its n-th recurrence (n from 0).
exponential(n) == exponentialBase * 2 ^ n

ParkedCli ==
  /\ cliPc = "idle"
  /\ cliSymbol = ""
  /\ cliElapsed = 0
  /\ cliRetries = 0
  /\ cliDelay = 0
  /\ cliExits = <<>>
  /\ cliResult = Pending

ParkedReader == snapshot = NoState

\* The command handler starts its first getQuote attempt.
handler(sym) ==
  /\ cliPc = "idle"
  /\ cliPc' = "attempt"
  /\ cliSymbol' = sym
  /\ cliElapsed' = 0
  /\ UNCHANGED <<cliRetries, cliDelay, cliExits, cliResult>>
  /\ UNCHANGED <<cbVars, tpVars, fnVars, svVars, obVars>>

\* Effect.retry on the exit of an attempt: a success or an error the while
\* predicate refuses ends the effect, as does an exhausted schedule;
\* otherwise the schedule grants a retry after its delay.
retry(exit) ==
  /\ cliExits' = Append(cliExits, exit)
  /\ cliElapsed' = 0
  /\ IF ~exit.ok /\ retryWhile(exit.error) /\ cliRetries < recurs
       THEN /\ cliPc' = "backoff"
            /\ cliRetries' = cliRetries + 1
            /\ cliDelay' = exponential(cliRetries)
            /\ UNCHANGED cliResult
       ELSE /\ cliPc' = "done"
            /\ cliResult' = exit
            /\ UNCHANGED <<cliRetries, cliDelay>>
  /\ UNCHANGED cliSymbol
  /\ UNCHANGED <<cbVars, tpVars, fnVars, svVars, obVars>>

\* getQuote completes before the handler's timeout.
attemptCompletes(exit) ==
  /\ cliPc = "attempt"
  /\ cliElapsed < CLI_TIMEOUT
  /\ retry(exit)

\* The handler's timeoutFail interrupts getQuote and fails with onTimeout's
\* error.
attemptTimesOut ==
  /\ cliPc = "attempt"
  /\ cliElapsed >= CLI_TIMEOUT
  /\ retry(Failure(onCliTimeout))

\* Time passes while getQuote is running.
attemptRuns ==
  /\ cliPc = "attempt"
  /\ cliElapsed < CLI_TIMEOUT
  /\ cliElapsed' = cliElapsed + CliTickMs
  /\ UNCHANGED <<cliPc, cliSymbol, cliRetries, cliDelay, cliExits, cliResult>>
  /\ UNCHANGED <<cbVars, tpVars, fnVars, svVars, obVars>>

\* The backoff delay is over: the next attempt starts.
backoffEnds ==
  /\ cliPc = "backoff"
  /\ cliPc' = "attempt"
  /\ UNCHANGED <<cliSymbol, cliElapsed, cliRetries, cliDelay, cliExits,
                 cliResult>>
  /\ UNCHANGED <<cbVars, tpVars, fnVars, svVars, obVars>>

\* ---------------------------------------------------------------------------
\* The state accessor of a breaker (src/circuit-breaker.ts)
\* ---------------------------------------------------------------------------

readState_gates ==
  /\ ref' = gate(ref, clock, resetMs)[2]
  /\ snapshot' = ref'
  /\ UNCHANGED <<clock, pc, now, decision, prev, gated, invoked, opExit,
                 result, before, overlap, streak, opened, fresh, counted>>
  /\ UNCHANGED <<tpVars, fnVars, svVars, cliVars>>

\* breaker.state: Ref.get(ref).
readState ==
  /\ snapshot' = ref
  /\ UNCHANGED <<cbVars, tpVars, fnVars, svVars, cliVars>>

\* ---------------------------------------------------------------------------
\* Specifications
\* ---------------------------------------------------------------------------

ParkedBreaker == InitBreaker

Parked == ParkedCli /\ ParkedReader

\* One breaker under concurrent execute calls.
Init == InitBreaker /\ ParkedLoop /\ ParkedPure /\ ParkedService /\ Parked

Next ==
  \/ \E c \in Fibers : Begin(c)
  \/ \E c \in Fibers : Gate(c)
  \/ \E c \in Fibers : \E exit \in OpExits : Complete(c, exit)
  \/ \E c \in Fibers : Return(c)
  \/ Tick

Spec == Init /\ [][Next]_vars

\* tryProviders over a list of providers.
InitFallback == ParkedBreaker /\ InitLoop /\ ParkedPure /\ ParkedService /\ Parked

NextFallback ==
  \/ \E k \in Calls : \E sym \in Symbols :
       tryProviders(k, sym) /\ UNCHANGED svVars
  \/ \E k \in Calls : loop(k) /\ UNCHANGED svVars
  \/ \E k \in Calls :
       \E exit \in ProviderExits(index[k], symbol[k]) :
         settle(k, exit) /\ UNCHANGED svVars
  \/ \E k \in Calls : finish(k) /\ UNCHANGED svVars

SpecFallback == InitFallback /\ [][NextFallback]_vars

\* Each step of a started call is eventually taken: the recursion of loop is
\* run by the fiber of the call, and every provider effect completes, since
\* withBreaker bounds it by timeoutFail(PROVIDER_TIMEOUT).  Starting a call
\* and taking its exit are left to the caller.
FairFallback ==
  \A k \in Calls :
    /\ WF_vars(loop(k) /\ UNCHANGED svVars)
    /\ WF_vars(\E exit \in ProviderExits(index[k], symbol[k]) :
                 settle(k, exit) /\ UNCHANGED svVars)

SpecFallbackFair == SpecFallback /\ FairFallback

\* The pure functions on every input within the bounds.
InitFn == ParkedBreaker /\ ParkedLoop /\ InitPure /\ ParkedService /\ Parked

NextFn == ApplyIsTrippable \/ ApplyGate \/ ApplyOnTrippableFailure

SpecPure == InitFn /\ [][NextFn]_vars

\* The fallback service of the layer under successive getQuote calls.
InitSvc == ParkedBreaker /\ ParkedPure /\ InitService /\ Parked

NextService ==
  \/ \E k \in ServiceCalls : \E sym \in Symbols : getQuote(k, sym)
  \/ \E k \in ServiceCalls : serviceLoop(k)
  \/ \E k \in ServiceCalls : execute(k)
  \/ \E k \in ServiceCalls :
       \E exit \in ProviderExits(index[k], symbol[k]) :
         providerCompletes(k, exit)
  \/ \E k \in ServiceCalls : timeoutFail(k)
  \/ \E k \in ServiceCalls : serviceFinish(k)
  \/ advance

SpecService == InitSvc /\ [][NextService]_vars

\* The command handler of the CLI.
InitCli ==
  /\ ParkedBreaker /\ ParkedLoop /\ ParkedPure /\ ParkedService
  /\ ParkedCli /\ ParkedReader

NextCli ==
  \/ \E sym \in Symbols : handler(sym)
  \/ \E exit \in GetQuoteExits(cliSymbol) : attemptCompletes(exit)
  \/ attemptTimesOut
  \/ attemptRuns
  \/ backoffEnds

SpecCli == InitCli /\ [][NextCli]_vars

\* One breaker, one caller after another, and a reader of the state accessor.
Readers == {"f1"}

InitReader ==
  /\ InitBreaker /\ ParkedLoop /\ ParkedPure /\ ParkedService
  /\ ParkedCli /\ ParkedReader

NextReader ==
  \/ \E c \in Readers : Begin(c)
  \/ \E c \in Readers : Gate(c)
  \/ \E c \in Readers : \E exit \in OpExits : Complete(c, exit)
  \/ \E c \in Readers : Return(c)
  \/ Tick
  \/ readState

SpecReader == InitReader /\ [][NextReader]_vars

\* ---------------------------------------------------------------------------
\* Properties
\* ---------------------------------------------------------------------------

\* The classification table of the error taxonomy, written out independently
\* of isTrippable.
TableTrippable(e) ==
  \/ e.tag \in {"NetworkError", "ParseError", "ServiceError",
                "CircuitOpenError"}
  \/ (e.tag = "HttpError" /\ e.status >= 500)

TableTerminal(e) ==
  \/ e.tag = "SymbolNotFound"
  \/ (e.tag = "HttpError" /\ e.status < 500)

NoProviders == ServiceError("No providers configured")

\* C1: tryProviders invokes the providers in list order from index 0: the
\* n-th invocation of a call is of provider n-1, every invocation before the
\* last one failed with a trippable error, and an invocation that succeeded
\* is the last one of the call, which is over with that provider's value.
C1_ProvidersInOrder ==
  \A k \in Calls :
    \A n \in 1..Len(trace[k]) :
      /\ trace[k][n].index = n - 1
      /\ n - 1 < Len(providers)
      /\ n < Len(trace[k]) =>
           /\ ~trace[k][n].exit.ok
           /\ trace[k][n].exit # Pending
           /\ TableTrippable(trace[k][n].exit.error)
      /\ trace[k][n].exit = Pending => tpPc[k] = "calling"
      /\ trace[k][n].exit.ok =>
           /\ n = Len(trace[k])
           /\ tpPc[k] = "done"
           /\ tpResult[k] = trace[k][n].exit

\* A call fell back from the first provider to the second, which succeeded,
\* and a third provider was left untouched.
C1_Witness ==
  \E k \in Calls :
    /\ Len(providers) = 3
    /\ tpPc[k] = "done"
    /\ Len(trace[k]) = 2
    /\ trace[k][1].exit = Failure(NetworkError("yahoo"))
    /\ tpResult[k] = Success(StockQuote("AAPL", 101))

\* C2: a provider failure that is not trippable (SymbolNotFound, or HttpError
\* with status < 500) ends the call: it is the last invocation, the call is
\* over and its exit is exactly that failure.
C2_TerminalErrorStops ==
  \A k \in Calls :
    \A n \in 1..Len(trace[k]) :
      (/\ trace[k][n].exit # Pending
       /\ ~trace[k][n].exit.ok
       /\ TableTerminal(trace[k][n].exit.error))
      => /\ n = Len(trace[k])
         /\ tpPc[k] = "done"
         /\ tpResult[k] = trace[k][n].exit

\* The second of three providers answered with a client HttpError.
C2_Witness ==
  \E k \in Calls :
    /\ Len(providers) = 3
    /\ tpPc[k] = "done"
    /\ Len(trace[k]) = 2
    /\ trace[k][2].exit = Failure(HttpError(401))
    /\ tpResult[k] = Failure(HttpError(401))

AllFailedTrippable(k) ==
  /\ Len(trace[k]) = Len(providers)
  /\ \A n \in 1..Len(trace[k]) :
       /\ trace[k][n].exit # Pending
       /\ ~trace[k][n].exit.ok
       /\ TableTrippable(trace[k][n].exit.error)

\* C3: when the list is not empty and every provider failed with a trippable
\* error, the call fails with the error of the last provider of the list.
C3_ExhaustionReturnsLastError ==
  \A k \in Calls :
    (Len(providers) > 0 /\ AllFailedTrippable(k) /\ tpPc[k] = "done")
    => tpResult[k] = Failure(trace[k][Len(providers)].exit.error)

\* Three providers failed with three different trippable errors.
C3_Witness ==
  \E k \in Calls :
    /\ Len(providers) = 3
    /\ tpPc[k] = "done"
    /\ AllFailedTrippable(k)
    /\ trace[k][1].exit = Failure(NetworkError("yahoo"))
    /\ trace[k][2].exit = Failure(HttpError(501))
    /\ tpResult[k] = Failure(ServiceError("third"))

\* C4: with an empty provider list no provider is ever invoked, and the call
\* ends failing with ServiceError "No providers configured".
C4_EmptyListFails ==
  \A k \in Calls :
    Len(providers) = 0 =>
      /\ trace[k] = <<>>
      /\ tpPc[k] \in {"idle", "loop", "done"}
      /\ tpPc[k] = "done" => tpResult[k] = Failure(NoProviders)

C4_Witness ==
  \E k \in Calls :
    /\ providers = <<>>
    /\ tpPc[k] = "done"
    /\ tpResult[k] = Failure(NoProviders)

\* C5: isTrippable returns a boolean for every error of the taxonomy: TRUE
\* for NetworkError, ParseError, ServiceError and CircuitOpenError, TRUE for
\* HttpError exactly when status >= 500, FALSE for SymbolNotFound.
C5_IsTrippableTable ==
  fnPc = "isTrippable" =>
    /\ fnRet \in BOOLEAN
    /\ fnRet = TableTrippable(fnArgs.e)
    /\ fnRet = ~TableTerminal(fnArgs.e)

\* isTrippable applied at the boundary status 500.
C5_Witness ==
  /\ fnPc = "isTrippable"
  /\ fnArgs.e = HttpError(500)
  /\ fnRet = TRUE

Quiescent == \A c \in Fibers : ~InFlight(c)

Rejected(c) ==
  /\ pc[c] = "done"
  /\ ~result[c].ok
  /\ result[c].error.tag = "CircuitOpenError"

\* C6: for a breaker used sequentially from Closed(0), once maxFailures calls
\* in a row have failed with a trippable error the cell is Open, and a later
\* call whose clock reading is less than resetMs past openedAt fails with
\* CircuitOpenError without its operation being started.
C6_OpensAfterMaxFailures ==
  /\ (~overlap /\ streak = maxFailures /\ Quiescent) => ref.tag = "Open"
  /\ \A c \in Fibers :
       (/\ ~overlap
        /\ streak = maxFailures
        /\ pc[c] \in {"running", "done"}
        /\ prev[c].tag = "Open"
        /\ now[c] - prev[c].openedAt < resetMs)
       => /\ Rejected(c)
          /\ ~invoked[c]
          /\ opExit[c] = Pending

\* After maxFailures failures in a row, a call made 20 s later was rejected.
C6_Witness ==
  \E c \in Fibers :
    /\ ~overlap
    /\ streak = maxFailures
    /\ ref = Open(0)
    /\ now[c] = 2 * TickMs
    /\ Rejected(c)
    /\ ~invoked[c]

StepsGate(c) == pc[c] = "gate" /\ pc'[c] # "gate"
StepsComplete(c) == pc[c] = "running" /\ pc'[c] = "done"

\* C7: a call that reaches the gate of an Open breaker with a clock reading
\* at least resetMs past openedAt is admitted and leaves the cell HalfOpen;
\* when the operation of such a probe succeeds the cell becomes Closed(0);
\* and a call that reaches the gate at Closed(0) is admitted.
C7_OpenRecovers ==
  [][\A c \in Fibers :
       /\ (StepsGate(c) /\ ref.tag = "Open"
             /\ now[c] - ref.openedAt >= resetMs)
          => (ref' = HalfOpen /\ pc'[c] = "running" /\ invoked'[c])
       /\ (StepsComplete(c) /\ prev[c].tag = "Open" /\ opExit'[c].ok)
          => (ref' = Closed(0) /\ result'[c].ok)
       /\ (StepsGate(c) /\ ref = Closed(0))
          => (pc'[c] = "running" /\ invoked'[c])
    ]_vars

\* A probe admitted at the first clock reading resetMs or more past the
\* opening has succeeded, and the next call has been admitted.
C7_Witness ==
  \E c, d \in Fibers :
    /\ c # d
    /\ pc[c] = "done"
    /\ prev[c] = Open(0)
    /\ now[c] >= resetMs
    /\ now[c] < resetMs + TickMs
    /\ result[c].ok
    /\ ref = Closed(0)
    /\ pc[d] = "running"
    /\ prev[d] = Closed(0)

\* C8: when the operation fails with an error that is not trippable, the
\* completion leaves the cell as it was, which in sequential use is the state
\* the call's own gate step left (Closed(f) with the same f, or HalfOpen);
\* and as long as only non-trippable failures have been recorded since the
\* cell was Closed(0), it is still Closed(0).
C8_NonTrippableInvisible ==
  /\ [][\A c \in Fibers :
          (/\ StepsComplete(c)
           /\ ~opExit'[c].ok
           /\ TableTerminal(opExit'[c].error))
          => /\ ref' = ref
             /\ (~overlap => ref' = gated[c])
             /\ result'[c] = opExit'[c]
       ]_vars
  /\ [](streak = 0 => ref = Closed(0))

\* A probe failed with SymbolNotFound and the cell is still HalfOpen.
C8_Witness ==
  \E c \in Fibers :
    /\ ~overlap
    /\ pc[c] = "done"
    /\ prev[c].tag = "Open"
    /\ opExit[c] = Failure(SymbolNotFound("XYZ"))
    /\ before[c] = HalfOpen
    /\ ref = HalfOpen

\* C9: a call whose operation was started and failed with error e fails with
\* exactly e, and a call that fails with CircuitOpenError never started its
\* operation.
C9_OriginalErrorPropagates ==
  \A c \in Fibers :
    pc[c] = "done" =>
      /\ (invoked[c] /\ ~opExit[c].ok) => result[c] = opExit[c]
      /\ Rejected(c) => (~invoked[c] /\ opExit[c] = Pending)

\* The failure that opened the breaker reached the caller unchanged.
C9_Witness ==
  \E c \in Fibers :
    /\ pc[c] = "done"
    /\ invoked[c]
    /\ before[c] = Closed(maxFailures - 1)
    /\ ref.tag = "Open"
    /\ result[c] = Failure(NetworkError("down"))

\* C10: when the operation succeeds, execute returns its value and the
\* completion sets the cell to Closed(0), whatever the cell held at that
\* moment.
C10_SuccessResets ==
  [][\A c \in Fibers :
       (StepsComplete(c) /\ opExit'[c].ok)
       => /\ result'[c] = opExit'[c]
          /\ ref' = Closed(0)
    ]_vars

\* A call admitted while Closed succeeded after other calls had opened the
\* breaker.
C10_Witness ==
  \E c \in Fibers :
    /\ pc[c] = "done"
    /\ prev[c].tag = "Closed"
    /\ before[c].tag = "Open"
    /\ result[c] = Success(StockQuote("AAPL", 150))
    /\ ref = Closed(0)

\* C17: for every Closed(f) and for HalfOpen, every now and every resetMs,
\* gate returns allow together with the state it was given.
C17_GateClosedHalfOpenAllows ==
  (fnPc = "gate" /\ fnArgs.state.tag \in {"Closed", "HalfOpen"})
  => /\ fnRet[1] = "allow"
     /\ fnRet[2] = fnArgs.state

\* gate applied to HalfOpen.
C17_Witness ==
  /\ fnPc = "gate"
  /\ fnArgs.state = HalfOpen
  /\ fnRet = <<"allow", HalfOpen>>

\* C18: gate(Open(t), now, R) rejects and keeps the state exactly when
\* now - t < R, and allows with next state HalfOpen exactly when
\* now - t >= R.
C18_GateOpenRespectsTimeout ==
  (fnPc = "gate" /\ fnArgs.state.tag = "Open")
  => LET elapsed == fnArgs.now - fnArgs.state.openedAt
     IN  /\ fnRet \in {<<"reject", fnArgs.state>>, <<"allow", HalfOpen>>}
         /\ (fnRet = <<"reject", fnArgs.state>>) <=> (elapsed < fnArgs.resetMs)
         /\ (fnRet = <<"allow", HalfOpen>>) <=> (elapsed >= fnArgs.resetMs)

\* gate applied on the boundary now - t = R.
C18_Witness ==
  /\ fnPc = "gate"
  /\ fnArgs.state = Open(1)
  /\ fnArgs.now = 3
  /\ fnArgs.resetMs = 2
  /\ fnRet = <<"allow", HalfOpen>>

\* C19: onTrippableFailure(Closed(f), now, maxFailures) is Open(now) when
\* f + 1 >= maxFailures and Closed(f + 1) otherwise.
C19_FailureCounting ==
  (fnPc = "onTrippableFailure" /\ fnArgs.state.tag = "Closed")
  => fnRet = IF fnArgs.state.failures + 1 >= fnArgs.maxFailures
               THEN Open(fnArgs.now)
               ELSE Closed(fnArgs.state.failures + 1)

\* With maxFailures = 1 the first failure from Closed(0) opens the breaker.
C19_Witness ==
  /\ fnPc = "onTrippableFailure"
  /\ fnArgs.state = Closed(0)
  /\ fnArgs.maxFailures = 1
  /\ fnArgs.now = 2
  /\ fnRet = Open(2)

\* C20: onTrippableFailure(HalfOpen, now, maxFailures) is Open(now) for every
\* now and every maxFailures.
C20_ProbeFailureReopens ==
  (fnPc = "onTrippableFailure" /\ fnArgs.state = HalfOpen)
  => fnRet = Open(fnArgs.now)

\* A failed probe with a threshold above one.
C20_Witness ==
  /\ fnPc = "onTrippableFailure"
  /\ fnArgs.state = HalfOpen
  /\ fnArgs.maxFailures = 3
  /\ fnArgs.now = 3
  /\ fnRet = Open(3)

TrippableFailure(exit) ==
  exit # Pending /\ ~exit.ok /\ TableTrippable(exit.error)

C15_RejectsUntilTimeout ==
  [][\A c \in Fibers :
       (StepsGate(c) /\ opened >= 0 /\ now[c] - opened < resetMs)
       => (pc'[c] = "done" /\ ~result'[c].ok /\ ~invoked'[c])
    ]_vars

\* C15 amended: while the cell holds Open(t), every call that reaches the
\* gate with now - t < resetMs is rejected with CircuitOpenError, does not
\* start its operation and leaves the cell as it is; the cell leaves Open
\* only by the gate of a call with now - t >= resetMs (to HalfOpen) or by the
\* success of a call that was admitted earlier and still in flight (to
\* Closed(0)).
C15_RejectsWhileOpen ==
  [][/\ \A c \in Fibers :
          (StepsGate(c) /\ ref.tag = "Open"
             /\ now[c] - ref.openedAt < resetMs)
          => /\ pc'[c] = "done"
             /\ result'[c] = Failure(CircuitOpenError("Circuit is open"))
             /\ ~invoked'[c]
             /\ ref' = ref
     /\ (ref.tag = "Open" /\ ref' # ref) =>
          \E c \in Fibers :
            \/ /\ StepsGate(c)
               /\ now[c] - ref.openedAt >= resetMs
               /\ ref' = HalfOpen
            \/ /\ StepsComplete(c)
               /\ opExit'[c].ok
               /\ ref' = Closed(0)
    ]_vars

\* A call was rejected while a call admitted before the opening is still in
\* flight.
C15_Witness ==
  \E c, d \in Fibers :
    /\ c # d
    /\ Rejected(c)
    /\ prev[c].tag = "Open"
    /\ now[c] - prev[c].openedAt < resetMs
    /\ pc[d] = "running"
    /\ prev[d].tag = "Closed"
    /\ ref.tag = "Open"

\* -- the fallback service --

CircuitOpen(exit) == ~exit.ok /\ exit.error.tag = "CircuitOpenError"

\* The step of call k in which its provider's breaker rejects.
StepsReject(k) == svPhase[k] = "gate" /\ svPhase'[k] = "none"

\* The step of call k in which its running provider operation ends.
StepsOutcome(k) == svPhase[k] = "running" /\ svPhase'[k] = "none"

\* C11: no CircuitOpenError reaches the fallback loop or the caller of
\* getQuote: a rejection by provider <name>'s breaker is seen by the loop as
\* ServiceError "<name>: circuit open", and every other exit of the wrapped
\* provider is seen unchanged.
C11_NoCircuitOpenErrorEscapes ==
  \A k \in Calls :
    /\ Len(svRaw[k]) <= Len(trace[k])
    /\ \A i \in 1..Len(svRaw[k]) :
         LET name == providers[trace[k][i].index + 1]
             raw == svRaw[k][i]
             seen == trace[k][i].exit
         IN  /\ ~CircuitOpen(seen)
             /\ CircuitOpen(raw)
                  => seen = Failure(ServiceError(name \o ": circuit open"))
             /\ ~CircuitOpen(raw) => seen = raw
    /\ lastError[k].tag # "CircuitOpenError"
    /\ ~CircuitOpen(tpResult[k])

\* getQuote has failed after yahoo's breaker rejected and the loop saw the
\* rejection as ServiceError.
C11_Witness ==
  \E k \in Calls :
    /\ tpPc[k] = "done"
    /\ Len(svRaw[k]) >= 1
    /\ CircuitOpen(svRaw[k][1])
    /\ trace[k][1].exit = Failure(ServiceError("yahoo: circuit open"))
    /\ ~tpResult[k].ok

\* C12: a rejection by a provider's breaker does not stop tryProviders: the
\* ServiceError becomes the last error and the loop goes on with the next
\* provider; when the rejecting provider is the last one, tryProviders fails
\* with ServiceError "<last provider name>: circuit open".
C12_RejectionAdvances ==
  [][\A k \in Calls :
       /\ StepsReject(k) =>
            /\ tpPc'[k] = "loop"
            /\ index'[k] = index[k] + 1
            /\ lastError'[k] = ServiceError(current(k) \o ": circuit open")
            /\ tpResult'[k] = Pending
       /\ (/\ tpPc[k] = "loop" /\ tpPc'[k] # "loop"
           /\ Len(svRaw[k]) > 0
           /\ CircuitOpen(svRaw[k][Len(svRaw[k])])) =>
            IF index[k] < Len(providers)
              THEN /\ tpPc'[k] = "calling"
                   /\ svPhase'[k] = "gate"
                   /\ index'[k] = index[k]
              ELSE /\ tpPc'[k] = "done"
                   /\ tpResult'[k] = Failure(ServiceError(
                        providers[Len(providers)] \o ": circuit open"))
    ]_vars

\* Both breakers rejected and getQuote failed with the last provider's
\* ServiceError.
C12_Witness ==
  \E k \in Calls :
    /\ tpPc[k] = "done"
    /\ Len(providers) = 2
    /\ Len(svRaw[k]) = 2
    /\ CircuitOpen(svRaw[k][1]) /\ CircuitOpen(svRaw[k][2])
    /\ svInvoked[k] = {}
    /\ tpResult[k] = Failure(ServiceError("alphavantage: circuit open"))

\* C13: a provider operation still running when PROVIDER_TIMEOUT has passed
\* ends with NetworkError "<name>: request timed out"; the breaker of that
\* provider records it with onTrippableFailure and tryProviders advances to
\* the next provider with that error as the last error.
C13_TimeoutTrips ==
  [][\A k \in Calls :
       (StepsOutcome(k) /\ svClock - svStart[k] >= PROVIDER_TIMEOUT) =>
         LET name == current(k)
             e == NetworkError(name \o ": request timed out")
         IN  /\ svRaw'[k][Len(svRaw'[k])] = Failure(e)
             /\ trace'[k][Len(trace'[k])].exit = Failure(e)
             /\ svRef'[name] =
                  onTrippableFailure(svRef[name], svNow[k], maxFailures)
             /\ tpPc'[k] = "loop"
             /\ index'[k] = index[k] + 1
             /\ lastError'[k] = e
    ]_vars

\* yahoo's third failure in a row was a timeout: its breaker is open and the
\* loop has moved on to alphavantage.
C13_Witness ==
  \E k \in Calls :
    /\ Len(providers) = 2
    /\ Len(svRaw[k]) = 1
    /\ svRaw[k][1] = Failure(NetworkError("yahoo: request timed out"))
    /\ svStreak["yahoo"] = maxFailures
    /\ svRef["yahoo"].tag = "Open"
    /\ tpPc[k] = "calling"
    /\ index[k] = 1

\* C16: once a provider's wrapped operation has produced maxFailures
\* trippable failures in a row and its breaker has opened, a getQuote call
\* made less than resetMs after the opening does not start that provider's
\* operation and goes on to the providers after it.
C16_OpenPersistsAcrossCalls ==
  [][\A k \in Calls :
       (/\ svPhase[k] = "gate" /\ svPhase'[k] # "gate"
        /\ svOpening[current(k)] >= 0
        /\ svMade[k] >= svOpening[current(k)]
        /\ svMade[k] - svOpening[current(k)] < resetMs) =>
         /\ current(k) \notin svInvoked'[k]
         /\ tpPc'[k] = "loop"
         /\ index'[k] = index[k] + 1
    ]_vars

\* -- the CLI command handler --

NetworkFailure(exit) == ~exit.ok /\ exit.error.tag = "NetworkError"

\* C21: the handler starts a further getQuote attempt only after an attempt
\* that failed with NetworkError (the one made by its timeout included), makes
\* at most recurs retries, that is recurs + 1 attempts, and an attempt that
\* succeeds or fails with another error ends the command with that exit.
C21_RetriesOnlyNetworkError ==
  LET n == Len(cliExits)
  IN  /\ n <= recurs + 1
      /\ cliRetries <= recurs
      /\ \A i \in 1..(n - 1) : NetworkFailure(cliExits[i])
      /\ (cliPc \in {"attempt", "backoff"} /\ n > 0)
           => /\ NetworkFailure(cliExits[n])
              /\ n <= recurs
              /\ cliRetries = n
      /\ (n > 0 /\ ~NetworkFailure(cliExits[n])) => cliPc = "done"
      /\ (n > 0 /\ NetworkFailure(cliExits[n]) /\ n <= recurs)
           => cliPc \in {"attempt", "backoff"}
      /\ cliPc = "done" => (n > 0 /\ cliResult = cliExits[n])

\* Three attempts were made: the first two failed with NetworkError, one of
\* them by the handler's timeout, and the third NetworkError ended the
\* command.
C21_Witness ==
  /\ cliPc = "done"
  /\ Len(cliExits) = recurs + 1
  /\ cliExits[1] = Failure(NetworkError("down"))
  /\ cliExits[2] = Failure(NetworkError("Request timed out"))
  /\ cliResult = Failure(NetworkError("down"))

\* -- one breaker, continued --

\* C22: a rejected execute call leaves the cell as it was: its gate step finds
\* the cell Open and does not change it (same openedAt), no outcome transition
\* is applied for the call, and the call's return does not touch the cell.
C22_RejectionLeavesCell ==
  [][\A c \in Fibers :
       /\ (StepsGate(c) /\ decision'[c] = "reject") =>
            /\ ref.tag = "Open"
            /\ ref' = ref
            /\ pc'[c] = "done"
            /\ opExit'[c] = Pending
            /\ before'[c] = NoState
            /\ streak' = streak
       /\ (Rejected(c) /\ pc'[c] # "done") =>
            /\ ref' = ref
            /\ streak' = streak
    ]_vars

\* A call that read the clock after the opening was rejected and the cell
\* still holds the openedAt it held before.
C22_Witness ==
  \E c \in Fibers :
    /\ Rejected(c)
    /\ prev[c].tag = "Open"
    /\ now[c] > prev[c].openedAt
    /\ ref = prev[c]
    /\ opExit[c] = Pending

\* C23: whenever a trippable failure moves the cell into Open, the stored
\* openedAt is the clock time at which that failure occurred.
C23_OpenedAtIsFailureTime ==
  [][\A c \in Fibers :
       (StepsComplete(c) /\ ref.tag # "Open" /\ ref'.tag = "Open")
       => ref'.openedAt = clock
    ]_vars

\* C24: while the cell stays Open its openedAt does not change; a trippable
\* failure recorded while the cell is Open leaves it as it is.
C24_OpenedAtSetOnce ==
  [][/\ (ref.tag = "Open" /\ ref'.tag = "Open") => ref' = ref
     /\ \A c \in Fibers :
          (StepsComplete(c) /\ ref.tag = "Open"
             /\ TrippableFailure(opExit'[c]))
          => ref' = ref
    ]_vars

\* A call admitted while Closed, with a later clock reading than the
\* opening's, failed with a trippable error after the breaker had opened.
C24_Witness ==
  \E c \in Fibers :
    /\ pc[c] = "done"
    /\ prev[c].tag = "Closed"
    /\ before[c].tag = "Open"
    /\ TrippableFailure(opExit[c])
    /\ now[c] > before[c].openedAt
    /\ ref = before[c]

C28_StartsClosed ==
  /\ [](fresh => ref = Closed(0))
  /\ [][\A c \in Fibers :
          (StepsGate(c) /\ fresh)
          => /\ prev'[c] = Closed(0)
             /\ decision'[c] = "allow"
             /\ pc'[c] = "running"
             /\ invoked'[c]
       ]_vars

\* The first call has passed the gate of the fresh breaker and is running.
C28_Witness ==
  \E c \in Fibers :
    /\ ~fresh
    /\ pc[c] = "running"
    /\ prev[c] = Closed(0)
    /\ \A d \in Fibers \ {c} : pc[d] = "idle"
    /\ streak = 0
    /\ opened = -1
    /\ ref = Closed(0)

\* -- the state accessor --

\* C29: reading the state accessor returns the cell's current content and
\* changes nothing of the breaker; in particular it leaves an Open cell Open
\* when the reset timeout has elapsed.
C29_StateAccessorReadOnly ==
  [][snapshot' # snapshot =>
       /\ snapshot' = ref
       /\ ref' = ref
       /\ UNCHANGED cbVars
    ]_vars

\* The accessor was read with the reset timeout elapsed and no call in
\* flight: it returned Open and the cell is still Open.
C29_Witness ==
  /\ snapshot = ref
  /\ ref.tag = "Open"
  /\ clock - ref.openedAt >= resetMs
  /\ \A c \in Fibers : pc[c] = "idle"

\* -- the fallback service, continued --

\* C27: the breakers of different providers are independent: a step of an
\* execute call on one provider's breaker changes that provider's cell only,
\* and the gate's decision and next state for a provider are gate applied to
\* that provider's own cell and the clock.
C27_BreakersIndependent ==
  [][/\ \A n \in ServiceNames :
          svRef'[n] # svRef[n] =>
            \E k \in Calls : tpPc[k] = "calling" /\ current(k) = n
     /\ \A k \in Calls :
          (tpPc[k] = "calling" /\ svPhase'[k] # svPhase[k]) =>
            LET name == current(k)
                g == gate(svRef[name], svClock, resetMs)
            IN  /\ \A n \in ServiceNames \ {name} : svRef'[n] = svRef[n]
                /\ svPhase[k] = "gate" =>
                     /\ svRef'[name] = g[2]
                     /\ (g[1] = "reject") <=> (svPhase'[k] = "none")
                     /\ (g[1] = "allow") <=> (svPhase'[k] = "running")
    ]_vars

\* yahoo's breaker is open and rejected the call, while alphavantage's
\* breaker, still Closed(0), admitted it.
C27_Witness ==
  \E k \in Calls :
    /\ tpPc[k] = "calling"
    /\ svPhase[k] = "running"
    /\ current(k) = "alphavantage"
    /\ Len(svRaw[k]) = 1
    /\ CircuitOpen(svRaw[k][1])
    /\ svRef["yahoo"].tag = "Open"
    /\ svRef["alphavantage"] = Closed(0)

\* -- tryProviders, continued --

\* The provider invocations of call k that have completed.
Settled(k) ==
  IF tpPc[k] = "calling" THEN Len(trace[k]) - 1 ELSE Len(trace[k])

\* C30: the loop's index and last error belong to one tryProviders call: a
\* step of one call leaves the index, last error, invocations and result of
\* every other call alone, and at every point a call's index, last error and
\* result are determined by the exits of the provider invocations it made
\* itself, also when calls run concurrently over the same provider list.
C30_LoopStateIsPerCall ==
  /\ [](\A k \in Calls :
          /\ tpPc[k] \in {"loop", "calling"} =>
               /\ index[k] = Settled(k)
               /\ lastError[k] =
                    IF Settled(k) = 0
                      THEN ServiceError("No providers configured")
                      ELSE trace[k][Settled(k)].exit.error
          /\ tpPc[k] = "done" =>
               tpResult[k] =
                 IF trace[k] = <<>>
                   THEN Failure(ServiceError("No providers configured"))
                   ELSE trace[k][Len(trace[k])].exit)
  /\ [][\A k \in Calls :
          tpPc'[k] # tpPc[k] =>
            \A j \in Calls \ {k} :
              /\ index'[j] = index[j]
              /\ lastError'[j] = lastError[j]
              /\ trace'[j] = trace[j]
              /\ tpResult'[j] = tpResult[j]
              /\ tpPc'[j] = tpPc[j]
       ]_vars

\* Two calls are in flight over the same list, both past the first provider,
\* each carrying the error of its own invocation.
C30_Witness ==
  \E k, j \in Calls :
    /\ k # j
    /\ tpPc[k] = "calling"
    /\ tpPc[j] = "loop"
    /\ index[k] = 1 /\ index[j] = 1
    /\ lastError[k] # lastError[j]
    /\ lastError[k] = trace[k][1].exit.error
    /\ lastError[j] = trace[j][1].exit.error

\* -- one breaker: invariants of the cell --

\* C31: in every reachable state a Closed cell carries a failure count f with
\* 0 <= f < maxFailures, whatever the interleaving of execute calls.
C31_ClosedCountBelowThreshold ==
  ref.tag = "Closed" =>
    /\ ref.failures >= 0
    /\ ref.failures < maxFailures

\* With two calls in flight together the count has reached the last value
\* below the threshold.
C31_Witness ==
  /\ overlap
  /\ ref = Closed(maxFailures - 1)
  /\ \E c \in Fibers :
       /\ pc[c] = "done"
       /\ before[c] = Closed(maxFailures - 2)
       /\ TrippableFailure(opExit[c])

\* C32: the cell enters Open only by the recording of a trippable failure
\* that is either the maxFailures-th trippable failure counted since the cell
\* was last set to Closed(0) or recorded while the cell is HalfOpen; a
\* success, a non-trippable failure or a rejection never opens the breaker.
C32_OpensOnlyForCause ==
  /\ [](ref.tag = "Closed" => counted = ref.failures)
  /\ [][(ref.tag # "Open" /\ ref'.tag = "Open") =>
          \E c \in Fibers :
            /\ StepsComplete(c)
            /\ TrippableFailure(opExit'[c])
            /\ \/ ref = HalfOpen
               \/ /\ ref.tag = "Closed"
                  /\ counted' = maxFailures
       ]_vars

\* A probe admitted by the transition from Open failed with a trippable error
\* while the cell was HalfOpen and opened the breaker again.
C32_Witness ==
  \E c \in Fibers :
    /\ pc[c] = "done"
    /\ prev[c].tag = "Open"
    /\ before[c] = HalfOpen
    /\ TrippableFailure(opExit[c])
    /\ ref = Open(now[c])
    /\ counted = maxFailures

\* C33: the cell changes only by Closed(f) -> Closed(f + 1), Closed(f) ->
\* Open, Open -> HalfOpen (by a gate step whose clock reading is at least
\* resetMs past openedAt), HalfOpen -> Open, and any state -> Closed(0) by a
\* success; HalfOpen is never entered from Closed.
C33_OnlyTheseTransitions ==
  [][ref' # ref =>
       \/ /\ ref.tag = "Closed" /\ ref' = Closed(ref.failures + 1)
          /\ \E c \in Fibers : StepsComplete(c) /\ ~opExit'[c].ok
       \/ /\ ref.tag = "Closed" /\ ref'.tag = "Open"
          /\ \E c \in Fibers : StepsComplete(c) /\ ~opExit'[c].ok
       \/ /\ ref.tag = "Open" /\ ref' = HalfOpen
          /\ \E c \in Fibers :
               StepsGate(c) /\ now[c] - ref.openedAt >= resetMs
       \/ /\ ref = HalfOpen /\ ref'.tag = "Open"
          /\ \E c \in Fibers : StepsComplete(c) /\ ~opExit'[c].ok
       \/ /\ ref' = Closed(0)
          /\ \E c \in Fibers : StepsComplete(c) /\ opExit'[c].ok
    ]_vars

\* The cell has gone from Closed through Open and HalfOpen back to Closed(0):
\* the probe that made the transition from Open succeeded.
C33_Witness ==
  \E c \in Fibers :
    /\ pc[c] = "done"
    /\ prev[c].tag = "Open"
    /\ gated[c] = HalfOpen
    /\ before[c] = HalfOpen
    /\ opExit[c].ok
    /\ ref = Closed(0)
    /\ opened >= 0

\* -- tryProviders: termination and outcome --

Started(k) == tpPc[k] \in {"loop", "calling"}

\* C34: a started tryProviders call over n providers whose calls each
\* complete always terminates; it invokes at most n providers, each at most
\* once and in list order, so a failed provider is never invoked again within
\* the same call.
C34_TerminatesWithoutRetry ==
  /\ [](\A k \in Calls :
          /\ Len(trace[k]) <= Len(providers)
          /\ \A m, n \in 1..Len(trace[k]) :
               m < n => trace[k][m].index < trace[k][n].index)
  /\ \A k \in Calls : Started(k) ~> (tpPc[k] = "done")

\* A call over three providers ended after invoking every one of them once,
\* the first two having failed with a trippable error.
C34_Witness ==
  \E k \in Calls :
    /\ Len(providers) = 3
    /\ tpPc[k] = "done"
    /\ Len(trace[k]) = 3
    /\ \A n \in 1..3 : trace[k][n].index = n - 1
    /\ ~trace[k][1].exit.ok
    /\ ~trace[k][2].exit.ok
    /\ tpResult[k].ok

\* C35: over a non-empty provider list a finished call has invoked at least
\* one provider and its outcome is the exit of the last provider it invoked;
\* the initial "No providers configured" error is the outcome only when the
\* list is empty.
C35_OutcomeIsLastProviders ==
  \A k \in Calls :
    tpPc[k] = "done" =>
      /\ Len(providers) > 0 =>
           /\ Len(trace[k]) >= 1
           /\ trace[k][Len(trace[k])].exit # Pending
           /\ tpResult[k] = trace[k][Len(trace[k])].exit
      /\ tpResult[k] = Failure(NoProviders) => providers = <<>>

\* The list was exhausted: the outcome is the error of the last provider,
\* carried as lastError, and not the error of an earlier one.
C35_Witness ==
  \E k \in Calls :
    /\ Len(providers) = 2
    /\ tpPc[k] = "done"
    /\ Len(trace[k]) = 2
    /\ ~trace[k][1].exit.ok
    /\ ~trace[k][2].exit.ok
    /\ trace[k][1].exit # trace[k][2].exit
    /\ TableTrippable(trace[k][2].exit.error)
    /\ tpResult[k] = trace[k][2].exit

====
